---- MODULE Spec2Model ----
(***************************************************************************)
(* Model of critic.py: the multi-judge trading-strategy critic.            *)
(*                                                                         *)
(* Python strings are modelled as sequences of one-character strings, so   *)
(* that str.strip, str.split, str.lower and str.upper are computed the way *)
(* Python computes them.  An Optional value is a sequence of length 0      *)
(* (None) or 1 (the value).                                                *)
(***************************************************************************)
EXTENDS Integers, Sequences, FiniteSets, TLC

VARIABLES
    pc,             \* position of the program
    argv_models,    \* --models as typed on the command line
    argv_api_key,   \* --api-key (Optional)
    env_api_key,    \* os.getenv("OPENROUTER_CRITIC_API_KEY") (Optional)
    models,         \* args.models after argparse
    api_key,        \* main's api_key (Optional)
    model_choice,   \* generate_critic's parameter
    model,          \* generate_critic's local `model` (Optional)
    pending,        \* the transport request in flight (Optional)
    calls,          \* every request the transport has received, in order
    replies,        \* what the transport did with each of them, in order
    ret,            \* what generate_critic returned (Optional)
    results,        \* main's `results`
    verdicts,       \* main's `verdicts`
    consensus,      \* what the summary printed: counts and the branch taken
    stdout,         \* lines printed to standard output
    stdout_twin,    \* standard output of the same run given another credential
    stderr,         \* lines printed to standard error
    exit_code,      \* process exit status (Optional)
    raw,            \* the lines of a response text (critique), in order
    parsed          \* the verdict line taken from `raw` (Optional)

vars == <<pc, argv_models, argv_api_key, env_api_key, models, api_key,
          model_choice, model, pending, calls, replies, ret, results, verdicts,
          consensus, stdout, stdout_twin, stderr, exit_code, raw, parsed>>

-----------------------------------------------------------------------------
(* Bounds of the model *)

MaxModels == 2
MaxCalls == 2
MaxLines == 3
MaxVerdicts == 3

-----------------------------------------------------------------------------
(* Optional values *)

None == <<>>
Some(x) == << x >>

-----------------------------------------------------------------------------
(* Python string primitives *)

Upper == <<"A","B","C","D","E","F","G","H","I","J","K","L","M","N","O","P","Q","R","S","T","U","V","W","X","Y","Z">>
Lower == <<"a","b","c","d","e","f","g","h","i","j","k","l","m","n","o","p","q","r","s","t","u","v","w","x","y","z">>

LowerChar(c) ==
    IF \E k \in 1..26 : Upper[k] = c
    THEN Lower[CHOOSE k \in 1..26 : Upper[k] = c]
    ELSE c

UpperChar(c) ==
    IF \E k \in 1..26 : Lower[k] = c
    THEN Upper[CHOOSE k \in 1..26 : Lower[k] = c]
    ELSE c

\* str.lower()
StrLower(s) == [k \in 1..Len(s) |-> LowerChar(s[k])]

\* str.upper()
StrUpper(s) == [k \in 1..Len(s) |-> UpperChar(s[k])]

\* the characters str.strip() removes
IsSpace(c) == c \in {" ", "\n", "\r", "\t", "\f"}

RECURSIVE LStrip(_)
LStrip(s) ==
    IF s # <<>> /\ IsSpace(Head(s)) THEN LStrip(Tail(s)) ELSE s

RECURSIVE RStrip(_)
RStrip(s) ==
    IF s # <<>> /\ IsSpace(s[Len(s)]) THEN RStrip(SubSeq(s, 1, Len(s) - 1)) ELSE s

\* str.strip()
Strip(s) == RStrip(LStrip(s))

\* str.split('\n'): never an empty list, "" splits to [""]
RECURSIVE SplitLines(_)
SplitLines(s) ==
    IF \E k \in 1..Len(s) : s[k] = "\n"
    THEN LET k == CHOOSE j \in 1..Len(s) :
                      s[j] = "\n" /\ \A h \in 1..(j - 1) : s[h] # "\n"
         IN  <<SubSeq(s, 1, k - 1)>> \o SplitLines(SubSeq(s, k + 1, Len(s)))
    ELSE << s >>

\* '\n'.join(parts)
RECURSIVE JoinLines(_)
JoinLines(parts) ==
    IF parts = <<>> THEN <<>>
    ELSE IF Len(parts) = 1 THEN parts[1]
    ELSE parts[1] \o <<"\n">> \o JoinLines(Tail(parts))

-----------------------------------------------------------------------------
(* String literals of the program and of the modelled environment *)

K_gemini == <<"g","e","m","i","n","i">>
K_openai == <<"o","p","e","n","a","i">>
K_deepseek == <<"d","e","e","p","s","e","e","k">>
M_gemini == <<"g","o","o","g","l","e","/","g","e","m","i","n","i","-","2",".","5","-","p","r","o">>
M_openai == <<"o","p","e","n","a","i","/","g","p","t","-","4",".","1">>
M_deepseek == <<"d","e","e","p","s","e","e","k","/","d","e","e","p","s","e","e","k","-","c","h","a","t","-","v","3",".","1">>

ErrUnknownPrefix == <<"E","r","r","o","r",":"," ","U","n","k","n","o","w","n"," ","m","o","d","e","l"," ","'">>
ErrApiPrefix == <<"E","r","r","o","r"," ","d","u","r","i","n","g"," ","A","P","I"," ","c","a","l","l"," ","t","o"," ">>
IndexErrorText == <<"l","i","s","t"," ","i","n","d","e","x"," ","o","u","t"," ","o","f"," ","r","a","n","g","e">>

L_yes == <<"y","e","s">>
L_no == <<"n","o">>
L_Error == <<"E","r","r","o","r">>

\* identifiers a caller may hand to generate_critic besides the registry keys
Id_OPENAI == <<"O","P","E","N","A","I">>
Id_Gemini == <<"G","e","m","i","n","i">>
Id_claude == <<"c","l","a","u","d","e">>
Id_nl_yes == <<"x","\n","y","e","s">>

\* response texts of the judges
T_ok_Yes == <<"o","k","\n","Y","e","s">>
T_No == <<"N","o">>
T_Maybe == <<"M","a","y","b","e">>

\* descriptions of transport errors (str(e))
E_timeout == <<"t","i","m","e","o","u","t">>
E_401_yes == <<"4","0","1","\n","y","e","s">>

\* lines a judge's response is made of
L_Yes == <<"Y","e","s">>
L_YES_sp == <<" ","Y","E","S"," ">>
L_NO == <<"N","O">>
L_No_cr == <<"N","o","\r">>
L_yes_no == <<"y","e","s"," ","n","o">>
L_ok == <<"o","k">>
L_sp == <<" ">>
L_tab == <<"\t">>

\* credentials
Key_A == <<"s","k","-","A">>
Key_B == <<"s","k","-","B">>

-----------------------------------------------------------------------------
(* The judge registry and the per-call parameters *)

RegistryKeys == {K_gemini, K_openai, K_deepseek}

CRITIC_MODEL_LIST ==
    [k \in RegistryKeys |->
        IF k = K_gemini THEN M_gemini
        ELSE IF k = K_openai THEN M_openai
        ELSE M_deepseek]

\* dict.get(key): None when the key is absent
DictGet(key) ==
    IF key \in DOMAIN CRITIC_MODEL_LIST THEN Some(CRITIC_MODEL_LIST[key]) ELSE None

\* CRITIC_MODEL_LIST.get(model_choice.lower())
Lookup(choice) == DictGet(StrLower(choice))

StandardCap == 2000
LargeCap == 10000

\* max_completion_tokens=2000 if model_choice != "openai" else 10000
MaxCompletionTokens(choice) == IF choice # K_openai THEN StandardCap ELSE LargeCap

\* f"Error: Unknown model '{model_choice}'"
UnknownModelMsg(choice) == ErrUnknownPrefix \o choice \o <<"'">>

\* f"Error during API call to {model_choice}: {e}"
ApiErrorMsg(choice, e) == ErrApiPrefix \o choice \o <<":", " ">> \o e

-----------------------------------------------------------------------------
(* The verdict line and the consensus *)

\* variant: the text is split without being stripped first
VerdictLineNoStrip(critique, default) ==
    LET lines == SplitLines(critique)
    IN  IF lines # <<>> THEN Strip(lines[Len(lines)]) ELSE default

\* lines = critique.strip().split('\n');  lines[-1].strip() if lines else default
VerdictLine(critique, default) ==
    LET lines == SplitLines(Strip(critique))
    IN  IF lines # <<>> THEN Strip(lines[Len(lines)]) ELSE default

\* lines[:-1] of the same split
ReasoningLines(critique) ==
    LET lines == SplitLines(Strip(critique))
    IN  SubSeq(lines, 1, Len(lines) - 1)

\* how the summary counts a verdict line: v.lower() == 'yes', v.lower() == 'no'
VerdictOf(v) ==
    IF StrLower(v) = L_yes THEN "Approve"
    ELSE IF StrLower(v) = L_no THEN "Reject"
    ELSE "Unknown"

\* sum(1 for v in verdicts if v.lower() == 'yes')
YesCount(vs) == Cardinality({k \in DOMAIN vs : StrLower(vs[k]) = L_yes})

\* sum(1 for v in verdicts if v.lower() == 'no')
NoCount(vs) == Cardinality({k \in DOMAIN vs : StrLower(vs[k]) = L_no})

\* variant: one approval is enough for the first branch
ClassifyAnyYes(yes_count, no_count, n) ==
    IF yes_count > 0 THEN "UnanimousApprove"
    ELSE IF no_count = n THEN "UnanimousReject"
    ELSE "Mixed"

\* the if / elif / else that prints the consensus line
Classify(yes_count, no_count, n) ==
    IF yes_count = n THEN "UnanimousApprove"
    ELSE IF no_count = n THEN "UnanimousReject"
    ELSE "Mixed"

\* the consensus block of main
Consensus(vs) ==
    [yes_count |-> YesCount(vs),
     no_count |-> NoCount(vs),
     total |-> Len(vs),
     classification |-> Classify(YesCount(vs), NoCount(vs), Len(vs))]

-----------------------------------------------------------------------------
(* Printed output *)

OutLine(tag, parts, nums) == [tag |-> tag, parts |-> parts, nums |-> nums]

\* both runs of the pair print the same lines
Emit(out) ==
    /\ stdout' = stdout \o out
    /\ stdout_twin' = stdout_twin \o out

\* the credential the paired run was given: another non-empty one
TwinKey(k) == IF k = Key_A THEN Key_B ELSE Key_A

\* the prints of format_critique_output, for a str critique
FormatCritiqueOutput(critique, m) ==
    LET verdict == VerdictLine(critique, <<"U","n","k","n","o","w","n">>)
        colour == IF StrLower(verdict) = L_yes THEN "green" ELSE "red"
    IN  << OutLine("Model", << m >>, <<>>),
           OutLine(colour, << verdict >>, <<>>),
           OutLine("Reasoning", ReasoningLines(critique), <<>>) >>

\* the banner of generate_critic
GettingCritique(choice, m) == << OutLine("Getting critique", <<StrUpper(choice), m>>, <<>>) >>

\* one line of the summary table
SummaryLine(r, verdict) == OutLine("summary", <<StrUpper(r.model_choice), r.model, verdict>>, <<>>)

\* the consensus lines
ConsensusLines(c) ==
    << OutLine("Consensus", <<>>, <<c.yes_count, c.total>>),
       OutLine(c.classification, <<>>, <<>>) >>

-----------------------------------------------------------------------------
(* The environment: command lines, credentials, transport outcomes *)

\* --models values tried on the command line
ArgvIds == RegistryKeys \cup {Id_OPENAI, Id_claude}

\* identifiers handed to generate_critic by a direct caller
CallerIds == RegistryKeys \cup {Id_OPENAI, Id_Gemini, Id_claude, Id_nl_yes, <<>>}

SeqsUpTo(S, n) == UNION {[1..k -> S] : k \in 0..n}

ArgvModelLists == {None} \cup {Some(l) : l \in SeqsUpTo(ArgvIds, MaxModels)}

ArgvKeys == {None, Some(<<>>), Some(Key_A)}
EnvKeys == {None, Some(<<>>), Some(Key_B)}

ResponseTexts == {T_ok_Yes, T_No, <<>>}
ErrorTexts == {E_timeout, E_401_yes}

\* what one chat.completions.create call can do
Outcomes ==
    {[kind |-> "content", text |-> t] : t \in ResponseTexts}
    \cup {[kind |-> "no_content", text |-> <<>>]}
    \cup {[kind |-> "raise", text |-> e] : e \in ErrorTexts}
    \cup {[kind |-> "no_choices", text |-> IndexErrorText]}

\* bool(x) of an Optional[str]
Truthy(o) == o # None /\ o[1] # <<>>

\* a or b
PyOr(a, b) == IF Truthy(a) THEN a ELSE b

\* variant: `api_key is None`
KeyIsNone(k) == k = None

\* `not api_key`
NotApiKey(k) == ~Truthy(k)

\* variant: `model == ""`
ModelIsEmptyStr(m) == m # None /\ m[1] = <<>>

\* `not model`
NotModel(m) == ~Truthy(m)

\* variant: results.insert(0, ...)
InsertFirst(rs, r) == << r >> \o rs

\* results.append(...)
AppendResult(rs, r) == Append(rs, r)

-----------------------------------------------------------------------------
(* generate_critic *)

\* the two messages handed to the transport
Messages ==
    << [role |-> "system", content |-> "CRITIC_SYSTEM_PROMPT"],
       [role |-> "user", content |-> "CRITIC_PROMPT.format(prompt, strategy_output, code)"] >>

\* the keyword arguments of client.chat.completions.create
Request(m, choice) ==
    [model |-> m,
     messages |-> Messages,
     max_completion_tokens |-> MaxCompletionTokens(choice),
     temperature |-> "0.3"]

\* a returned (critique, model) pair, with the caller's model_choice beside it;
\* `succeeded` records which return statement produced it
Returned(critique, m, choice, ok) ==
    [critique |-> critique, model |-> m, model_choice |-> choice, succeeded |-> ok]

\* the registry lookup, its early return and the banner
GcLookup ==
    /\ pc = "gc_lookup"
    /\ model' = Lookup(model_choice)
    /\ IF NotModel(model')
       THEN /\ ret' = Some(Returned(Some(UnknownModelMsg(model_choice)),
                                    model_choice, model_choice, FALSE))
            /\ pc' = "gc_ret"
            /\ UNCHANGED <<stdout, stdout_twin>>
       ELSE /\ Emit(GettingCritique(model_choice, model'))
            /\ pc' = "gc_call"
            /\ ret' = None
    /\ UNCHANGED <<argv_models, argv_api_key, env_api_key, models, api_key,
                   model_choice, pending, calls, replies, results, verdicts,
                   consensus, stderr, exit_code, raw, parsed>>

\* client.chat.completions.create(...) is entered
GcCall ==
    /\ pc = "gc_call"
    /\ pending' = Some(Request(model, model_choice))
    /\ calls' = Append(calls, Request(model, model_choice))
    /\ pc' = "gc_wait"
    /\ UNCHANGED <<argv_models, argv_api_key, env_api_key, models, api_key,
                   model_choice, model, replies, ret, results, verdicts,
                   consensus, stdout, stdout_twin, stderr, exit_code, raw, parsed>>

\* the call returns or raises; the rest of the try block and the except clause
GcResponse ==
    /\ pc = "gc_wait"
    /\ \E o \in Outcomes :
        /\ replies' = Append(replies, o)
        /\ IF o.kind = "content"
           THEN /\ ret' = Some(Returned(Some(o.text), model[1], model_choice, TRUE))
                /\ UNCHANGED <<stdout, stdout_twin>>
           ELSE IF o.kind = "no_content"
           THEN /\ ret' = Some(Returned(None, model[1], model_choice, TRUE))
                /\ UNCHANGED <<stdout, stdout_twin>>
           ELSE /\ ret' = Some(Returned(Some(ApiErrorMsg(model_choice, o.text)),
                                        model[1], model_choice, FALSE))
                /\ Emit(<< OutLine("!", <<ApiErrorMsg(model_choice, o.text)>>, <<>>) >>)
    /\ pending' = None
    /\ pc' = "gc_ret"
    /\ UNCHANGED <<argv_models, argv_api_key, env_api_key, models, api_key,
                   model_choice, model, calls, results, verdicts,
                   consensus, stderr, exit_code, raw, parsed>>

-----------------------------------------------------------------------------
(* main *)

\* parser.parse_args(): --models takes one or more of the registry keys
ParseArgs ==
    /\ pc = "parse_args"
    /\ IF argv_models = None
       THEN /\ models' = <<K_gemini, K_openai, K_deepseek>>
            /\ pc' = "get_key"
            /\ UNCHANGED <<stderr, exit_code>>
       ELSE IF /\ Len(argv_models[1]) >= 1
               /\ \A k \in DOMAIN argv_models[1] : argv_models[1][k] \in RegistryKeys
       THEN /\ models' = argv_models[1]
            /\ pc' = "get_key"
            /\ UNCHANGED <<stderr, exit_code>>
       ELSE /\ stderr' = Append(stderr, "usage")
            /\ exit_code' = Some(2)
            /\ pc' = "exit"
            /\ UNCHANGED models
    /\ UNCHANGED <<argv_models, argv_api_key, env_api_key, api_key, model_choice,
                   model, pending, calls, replies, ret, results, verdicts,
                   consensus, stdout, stdout_twin, raw, parsed>>

\* the "Get API key" block
GetApiKey ==
    /\ pc = "get_key"
    /\ api_key' = PyOr(argv_api_key, env_api_key)
    /\ IF NotApiKey(api_key')
       THEN /\ stderr' = stderr \o <<"Error: No API key provided!",
                                     "Either set OPENROUTER_CRITIC_API_KEY in .env or use --api-key">>
            /\ exit_code' = Some(1)
            /\ pc' = "exit"
            /\ UNCHANGED <<stdout, stdout_twin>>
       ELSE /\ stdout' = Append(stdout, OutLine("text", api_key', <<>>))
            /\ stdout_twin' = Append(stdout_twin, OutLine("text", <<TwinKey(api_key'[1])>>, <<>>))
            /\ pc' = "banner"
            /\ UNCHANGED <<stderr, exit_code>>
    /\ UNCHANGED <<argv_models, argv_api_key, env_api_key, models, model_choice,
                   model, pending, calls, replies, ret, results, verdicts,
                   consensus, raw, parsed>>

\* the client is built and the heading is printed
Banner ==
    /\ pc = "banner"
    /\ Emit(<< OutLine("TRADING STRATEGY EVALUATION", <<>>, <<>>),
               OutLine("User Prompt", <<>>, <<>>),
               OutLine("Evaluating with models", models, <<>>) >>)
    /\ results' = <<>>
    /\ pc' = "loop"
    /\ UNCHANGED <<argv_models, argv_api_key, env_api_key, models, api_key,
                   model_choice, model, pending, calls, replies, ret, verdicts,
                   consensus, stderr, exit_code, raw, parsed>>

\* for model_choice in args.models: generate_critic(...) is called
LoopNext ==
    /\ pc = "loop"
    /\ IF Len(results) < Len(models)
       THEN /\ model_choice' = models[Len(results) + 1]
            /\ pc' = "gc_lookup"
       ELSE /\ pc' = "summary"
            /\ UNCHANGED model_choice
    /\ ret' = None
    /\ UNCHANGED <<argv_models, argv_api_key, env_api_key, models, api_key,
                   model, pending, calls, replies, results, verdicts,
                   consensus, stdout, stdout_twin, stderr, exit_code, raw, parsed>>

\* results.append(...); format_critique_output(critique, model); print()
Collect ==
    /\ pc = "gc_ret"
    /\ results' = AppendResult(results, ret[1])
    /\ IF ret[1].critique = None
       THEN \* critique.strip() on None: AttributeError, uncaught
            /\ stderr' = Append(stderr, "AttributeError")
            /\ exit_code' = Some(1)
            /\ pc' = "crashed"
            /\ UNCHANGED <<stdout, stdout_twin>>
       ELSE /\ Emit(FormatCritiqueOutput(ret[1].critique[1], ret[1].model)
                    \o << OutLine("", <<>>, <<>>) >>)
            /\ pc' = "loop"
            /\ UNCHANGED <<stderr, exit_code>>
    /\ UNCHANGED <<argv_models, argv_api_key, env_api_key, models, api_key,
                   model_choice, model, pending, calls, replies, ret, verdicts,
                   consensus, raw, parsed>>

\* the summary table and the consensus
Summary ==
    /\ pc = "summary"
    /\ verdicts' = [k \in 1..Len(results) |-> VerdictLine(results[k].critique[1], L_Error)]
    /\ consensus' = Some(Consensus(verdicts'))
    /\ Emit(<< OutLine("SUMMARY", <<>>, <<>>) >>
            \o [k \in 1..Len(results) |-> SummaryLine(results[k], verdicts'[k])]
            \o ConsensusLines(consensus'[1]))
    /\ exit_code' = Some(0)
    /\ pc' = "done"
    /\ UNCHANGED <<argv_models, argv_api_key, env_api_key, models, api_key,
                   model_choice, model, pending, calls, replies, ret, results,
                   stderr, raw, parsed>>

Init ==
    /\ pc = "parse_args"
    /\ argv_models \in ArgvModelLists
    /\ argv_api_key \in ArgvKeys
    /\ env_api_key \in EnvKeys
    /\ models = <<>>
    /\ api_key = None
    /\ model_choice = <<>>
    /\ model = None
    /\ pending = None
    /\ calls = <<>>
    /\ replies = <<>>
    /\ ret = None
    /\ results = <<>>
    /\ verdicts = <<>>
    /\ consensus = None
    /\ stdout = <<>>
    /\ stdout_twin = <<>>
    /\ stderr = <<>>
    /\ exit_code = None
    /\ raw = <<>>
    /\ parsed = None

Next ==
    \/ ParseArgs
    \/ GetApiKey
    \/ Banner
    \/ LoopNext
    \/ GcLookup
    \/ GcCall
    \/ GcResponse
    \/ Collect
    \/ Summary

Spec == Init /\ [][Next]_vars

-----------------------------------------------------------------------------
(* generate_critic called on its own, with any identifier *)

\* a caller enters generate_critic(client, model_choice, ...)
DirectCall ==
    /\ pc = "idle"
    /\ Len(results) < MaxCalls
    /\ \E id \in CallerIds : model_choice' = id
    /\ ret' = None
    /\ pc' = "gc_lookup"
    /\ UNCHANGED <<argv_models, argv_api_key, env_api_key, models, api_key,
                   model, pending, calls, replies, results, verdicts,
                   consensus, stdout, stdout_twin, stderr, exit_code, raw, parsed>>

\* the caller receives the returned pair
DirectReturn ==
    /\ pc = "gc_ret"
    /\ results' = Append(results, ret[1])
    /\ pc' = "idle"
    /\ UNCHANGED <<argv_models, argv_api_key, env_api_key, models, api_key,
                   model_choice, model, pending, calls, replies, ret, verdicts,
                   consensus, stdout, stdout_twin, stderr, exit_code, raw, parsed>>

InitInvoke ==
    /\ pc = "idle"
    /\ argv_models = None
    /\ argv_api_key = None
    /\ env_api_key = None
    /\ models = <<>>
    /\ api_key \in {Some(Key_A), Some(Key_B)}
    /\ model_choice = <<>>
    /\ model = None
    /\ pending = None
    /\ calls = <<>>
    /\ replies = <<>>
    /\ ret = None
    /\ results = <<>>
    /\ verdicts = <<>>
    /\ consensus = None
    /\ stdout = <<>>
    /\ stdout_twin = <<>>
    /\ stderr = <<>>
    /\ exit_code = None
    /\ raw = <<>>
    /\ parsed = None

NextInvoke ==
    \/ DirectCall
    \/ GcLookup
    \/ GcCall
    \/ GcResponse
    \/ DirectReturn

SpecInvoke == InitInvoke /\ [][NextInvoke]_vars

-----------------------------------------------------------------------------
(* The verdict line of main's summary, over response texts built line by line *)

LineSet == {<<>>, L_sp, L_tab, L_yes, L_Yes, L_YES_sp, L_no, L_NO, L_No_cr,
            L_yes_no, T_Maybe, L_ok}

\* the judge's response gains a line
AddLine ==
    /\ pc = "compose"
    /\ Len(raw) < MaxLines
    /\ \E l \in LineSet : raw' = Append(raw, l)
    /\ UNCHANGED <<pc, argv_models, argv_api_key, env_api_key, models, api_key,
                   model_choice, model, pending, calls, replies, ret, results,
                   verdicts, consensus, stdout, stdout_twin, stderr, exit_code,
                   parsed>>

\* lines = critique.strip().split('\n'); verdict = lines[-1].strip() if lines else "Error"
ParseVerdict ==
    /\ pc = "compose"
    /\ Len(raw) >= 1
    /\ parsed' = Some(VerdictLine(JoinLines(raw), L_Error))
    /\ pc' = "parsed"
    /\ UNCHANGED <<argv_models, argv_api_key, env_api_key, models, api_key,
                   model_choice, model, pending, calls, replies, ret, results,
                   verdicts, consensus, stdout, stdout_twin, stderr, exit_code,
                   raw>>

InitParse ==
    /\ pc = "compose"
    /\ argv_models = None
    /\ argv_api_key = None
    /\ env_api_key = None
    /\ models = <<>>
    /\ api_key = None
    /\ model_choice = <<>>
    /\ model = None
    /\ pending = None
    /\ calls = <<>>
    /\ replies = <<>>
    /\ ret = None
    /\ results = <<>>
    /\ verdicts = <<>>
    /\ consensus = None
    /\ stdout = <<>>
    /\ stdout_twin = <<>>
    /\ stderr = <<>>
    /\ exit_code = None
    /\ raw = <<>>
    /\ parsed = None

NextParse ==
    \/ AddLine
    \/ ParseVerdict

SpecParse == InitParse /\ [][NextParse]_vars

-----------------------------------------------------------------------------
(* The consensus block of main, over any non-empty list of verdict lines *)

VerdictLines == {L_yes, L_Yes, L_no, L_NO, T_Maybe, <<>>}

\* verdicts.append(verdict)
AddVerdict ==
    /\ pc = "collect"
    /\ Len(verdicts) < MaxVerdicts
    /\ \E v \in VerdictLines : verdicts' = Append(verdicts, v)
    /\ UNCHANGED <<pc, argv_models, argv_api_key, env_api_key, models, api_key,
                   model_choice, model, pending, calls, replies, ret, results,
                   consensus, stdout, stdout_twin, stderr, exit_code, raw, parsed>>

\* yes_count, no_count and the if / elif / else
Aggregate ==
    /\ pc = "collect"
    /\ Len(verdicts) >= 1
    /\ consensus' = Some(Consensus(verdicts))
    /\ Emit(ConsensusLines(consensus'[1]))
    /\ pc' = "aggregated"
    /\ UNCHANGED <<argv_models, argv_api_key, env_api_key, models, api_key,
                   model_choice, model, pending, calls, replies, ret, results,
                   verdicts, stderr, exit_code, raw, parsed>>

InitAggregate ==
    /\ pc = "collect"
    /\ argv_models = None
    /\ argv_api_key = None
    /\ env_api_key = None
    /\ models = <<>>
    /\ api_key = None
    /\ model_choice = <<>>
    /\ model = None
    /\ pending = None
    /\ calls = <<>>
    /\ replies = <<>>
    /\ ret = None
    /\ results = <<>>
    /\ verdicts = <<>>
    /\ consensus = None
    /\ stdout = <<>>
    /\ stdout_twin = <<>>
    /\ stderr = <<>>
    /\ exit_code = None
    /\ raw = <<>>
    /\ parsed = None

NextAggregate ==
    \/ AddVerdict
    \/ Aggregate

SpecAggregate == InitAggregate /\ [][NextAggregate]_vars

-----------------------------------------------------------------------------
(* Properties *)

Terminated == pc \in {"done", "crashed"}

UnknownCount(vs) == Cardinality({k \in DOMAIN vs : VerdictOf(vs[k]) = "Unknown"})

\* C1: whatever each judge's transport call does (text, empty or missing
\* content, an error), the run is never aborted: it ends with one
\* result/verdict pair per requested judge and a consensus whose Approve,
\* Reject and Unknown counts sum to the number of judges.
C1_RunCompletesOverAllJudges ==
    Terminated =>
        /\ pc = "done"
        /\ Len(results) = Len(models)
        /\ Len(verdicts) = Len(models)
        /\ consensus # None
        /\ consensus[1].yes_count + consensus[1].no_count + UnknownCount(verdicts)
               = Len(models)

\* C2: a result of a failed invocation (transport error or unrecognized
\* identifier) is summarised as Unknown whatever its text holds, and is
\* never counted as an approval or a rejection.
C2_FailedInvocationIsUnknown ==
    pc = "done" =>
        \A k \in DOMAIN results :
            ~results[k].succeeded => VerdictOf(verdicts[k]) = "Unknown"

AllAre(vs, verdict) == \A k \in DOMAIN vs : VerdictOf(vs[k]) = verdict

\* C3: the consensus is UnanimousApprove when every verdict is Approve,
\* otherwise UnanimousReject when every verdict is Reject, otherwise Mixed;
\* so Approve with Reject, Unknown with either, and all-Unknown are Mixed.
C3_ClassificationRule ==
    consensus # None =>
        /\ consensus[1].classification =
               IF AllAre(verdicts, "Approve") THEN "UnanimousApprove"
               ELSE IF AllAre(verdicts, "Reject") THEN "UnanimousReject"
               ELSE "Mixed"
        /\ (\E k \in DOMAIN verdicts : VerdictOf(verdicts[k]) = "Unknown")
               => consensus[1].classification = "Mixed"
        /\ ((\E k \in DOMAIN verdicts : VerdictOf(verdicts[k]) = "Approve")
            /\ (\E k \in DOMAIN verdicts : VerdictOf(verdicts[k]) = "Reject"))
               => consensus[1].classification = "Mixed"

C3_Witness ==
    /\ consensus # None
    /\ Len(verdicts) >= 2
    /\ AllAre(verdicts, "Unknown")
    /\ consensus[1].classification = "Mixed"

\* equality of two strings up to letter case
EqualIgnoringCase(a, b) ==
    /\ Len(a) = Len(b)
    /\ \A k \in 1..Len(a) : LowerChar(a[k]) = LowerChar(b[k])

\* the verdict the last non-blank line of a text stands for
LastLineVerdict(text) ==
    LET lines == SplitLines(text)
        nonblank == {k \in DOMAIN lines : Strip(lines[k]) # <<>>}
        token == IF nonblank = {} THEN <<>>
                 ELSE Strip(lines[CHOOSE k \in nonblank : \A h \in nonblank : h <= k])
    IN  IF EqualIgnoringCase(token, L_yes) THEN "Approve"
        ELSE IF EqualIgnoringCase(token, L_no) THEN "Reject"
        ELSE "Unknown"

\* C4: the verdict of a response text is that of its last non-blank line,
\* trimmed and compared exactly but without regard to case: "yes" is
\* Approve, "no" is Reject, anything else (an empty text, a last line that
\* only contains yes/no) is Unknown; a single line is the verdict line and
\* blank lines after the verdict line change nothing.
C4_VerdictIsLastLine ==
    parsed # None =>
        /\ VerdictOf(parsed[1]) = LastLineVerdict(JoinLines(raw))
        /\ Len(raw) = 1 => parsed[1] = Strip(raw[1])
        /\ VerdictOf(VerdictLine(JoinLines(raw \o << <<>>, L_sp >>), L_Error))
               = VerdictOf(parsed[1])

C4_Witness ==
    /\ parsed # None
    /\ Len(raw) = 3
    /\ raw[2] = L_YES_sp
    /\ raw[3] = <<>>
    /\ VerdictOf(parsed[1]) = "Approve"

IsPrefix(a, b) == Len(a) <= Len(b) /\ SubSeq(b, 1, Len(a)) = a

\* C5: generate_critic with an identifier the registry does not hold makes
\* no transport call and returns at once a failed result whose text says
\* the identifier is unknown; its verdict is Unknown.
C5_UnknownIdentifier ==
    [][ (pc = "gc_lookup" /\ Lookup(model_choice) = None) =>
            /\ pc' = "gc_ret"
            /\ calls' = calls
            /\ pending' = None
            /\ stdout' = stdout
            /\ ret' # None
            /\ ~ret'[1].succeeded
            /\ ret'[1].critique # None
            /\ IsPrefix(ErrUnknownPrefix \o model_choice, ret'[1].critique[1])
            /\ VerdictOf(VerdictLine(ret'[1].critique[1], L_Error)) = "Unknown" ]_vars

C5_Witness ==
    /\ pc = "gc_ret"
    /\ model_choice = Id_nl_yes
    /\ Lookup(model_choice) = None
    /\ ret # None
    /\ ~ret[1].succeeded
    /\ calls = <<>>

CredentialSupplied == Truthy(argv_api_key) \/ Truthy(env_api_key)

Invoking == pc \in {"gc_lookup", "gc_call", "gc_wait", "gc_ret"}

\* C6: without a credential (no override and nothing in the environment)
\* the run ends fatally before any judge is invoked: generate_critic is
\* entered and the transport is called only after the credential check passed.
C6_NoInvocationWithoutCredential ==
    /\ (Invoking \/ calls # <<>> \/ results # <<>>) =>
           (CredentialSupplied /\ Truthy(api_key))
    /\ (~CredentialSupplied /\ pc \notin {"parse_args", "get_key"}) =>
           (pc = "exit" /\ exit_code # Some(0) /\ calls = <<>> /\ results = <<>>)

C6_Witness ==
    /\ ~CredentialSupplied
    /\ env_api_key = Some(<<>>)
    /\ pc = "exit"
    /\ exit_code = Some(1)
    /\ models # <<>>

\* the critique generate_critic builds from what the transport did
CritiqueFor(choice, o) ==
    IF o.kind = "content" THEN o.text ELSE ApiErrorMsg(choice, o.text)

\* C7: judges are invoked one at a time in the order of the requested
\* list, and the i-th entry of the summary is the verdict of the response
\* to the i-th requested identifier, also when an identifier is repeated.
C7_ReportInRequestOrder ==
    /\ Len(replies) <= Len(calls)
    /\ Len(calls) <= Len(replies) + 1
    /\ (pending # None) <=> (Len(calls) = Len(replies) + 1)
    /\ \A k \in DOMAIN calls :
           /\ k <= Len(models)
           /\ calls[k].model = Some(CRITIC_MODEL_LIST[models[k]])
    /\ \A k \in DOMAIN results :
           /\ k <= Len(replies)
           /\ results[k].model_choice = models[k]
           /\ replies[k].kind # "no_content" =>
                  results[k].critique = Some(CritiqueFor(models[k], replies[k]))
    /\ pc = "done" =>
           /\ Len(verdicts) = Len(models)
           /\ \A k \in DOMAIN verdicts :
                  verdicts[k] = VerdictLine(CritiqueFor(models[k], replies[k]), L_Error)

C7_Witness ==
    /\ pc = "done"
    /\ Len(models) >= 2
    /\ models[1] = models[2]
    /\ VerdictOf(verdicts[1]) = "Approve"
    /\ VerdictOf(verdicts[2]) = "Reject"

\* C8: over a whole run every occurrence of a resolvable identifier in the
\* requested list causes exactly one transport call, an unresolvable one
\* none, and there are never more calls than requested judges.
C8_OneCallPerJudge ==
    /\ Len(calls) <= Len(models)
    /\ Terminated =>
           Len(calls) = Cardinality({k \in DOMAIN models : Lookup(models[k]) # None})

\* C9: the response cap sent to the transport is that of the registry
\* entry the identifier resolves to: the large cap for openai/gpt-4.1 and
\* the standard cap for the others, however the identifier is spelled.
C9_CapFollowsRegistryEntry ==
    \A k \in DOMAIN calls :
        calls[k].max_completion_tokens =
            IF calls[k].model = Some(M_openai) THEN LargeCap ELSE StandardCap

\* C10: the credential does not reach the output: the run and the same run
\* given another non-empty credential print the same text.
C10_OutputIndependentOfCredential ==
    stdout = stdout_twin

====
